---- MODULE Spec2Model ----
(***************************************************************************)
(* The concurrent world-state store of game-api (package game) and the     *)
(* SSE transport that drains its subscriber queues (package server).       *)
(*                                                                         *)
(* Goroutines serving mutating requests are the Workers; each goroutine    *)
(* serving GET /events (handleSSE) is one of the Subs and owns the one     *)
(* channel it creates, so a channel is named by its subscriber.            *)
(* Mu is the sync.RWMutex of Game, ClientsMu its sync.Mutex; a step that   *)
(* needs a lock is enabled only when the lock can be taken, so a goroutine *)
(* blocked in Lock/RLock is a goroutine none of whose steps is enabled.    *)
(***************************************************************************)
EXTENDS Integers, Sequences, FiniteSets, TLC

\* ---------------------------------------------------------------- bounds
\* goroutines serving join / move / attack requests
NumWorkers == 1
\* SSE connections (each makes one fresh channel) over the run
NumSubs == 2
\* capacity of a subscriber channel in the model; the source makes channels
\* of capacity 10 (handlers.go:372), the model checks a smaller queue
QueueCap == 2
\* player identifiers the identifier generator can hand out
MaxPlayers == 4
\* players that join in the specification Spec (SpecQueue lets all join)
WorldPlayers == 2
\* location-scoped events after which no further move or attack that would
\* succeed is started, in Spec and in SpecQueue
MaxActionEvents == 2
QueueActionEvents == 1
\* zero-value events a drain loop reads from its closed channel
MaxZeroReads == 1
\* largest numLocations GenerateGraph is called with in SpecGraph (NewGame
\* passes 10, game.go:23)
MaxLocations == 4
\* players that join in SpecGraph
GraphPlayers == 2
\* location-scoped events after which no further attack that would succeed
\* is started in SpecAttack
AttackEvents == 12
\* goroutines that call MovePlayer and AttackPlayer concurrently in SpecRace
RaceWorkers == 2
\* location-scoped events after which no further call is made in SpecRace
RaceEvents == 3

\* ------------------------------------------------------ program constants
StartHealth == 100
Damage == 10

Workers == 1..NumWorkers
Racers == 1..RaceWorkers
\* every goroutine that serves a join, move or attack request
AllWorkers == Workers \cup Racers
Subs == 1..NumSubs
PlayerIDs == 1..MaxPlayers
None == 0

\* identifiers GenerateID hands out for locations, in the order locSlice
\* lists them (the identifiers are opaque and unique)
LocationPool == <<"A", "B", "C", "D", "E", "F">>
\* the locSlice of GenerateGraph(n)
locSlice(n) == SubSeq(LocationPool, 1, n)

\* A world GenerateGraph(3) can return: the path A - B - C (A-B and B-C
\* connected, A-C not), Connections in append order.
PathWorld == [l \in {"A", "B", "C"} |->
                  CASE l = "A" -> <<"B">>
                    [] l = "B" -> <<"A", "C">>
                    [] l = "C" -> <<"B">>]
\* identifiers a move request can name: the locations of the path world
\* and one that is no location
LocationArgs == (DOMAIN PathWorld) \cup {"Z"}
\* what GetRandomLocation returns for an empty map: nil
NoLocation == ""

ErrPlayerNotFound == "player not found"
ErrLocationNotFound == "location not found"
ErrNotConnected == "location not connected"
ErrNotSameLocation == "players not in same location"
ErrNoLocations == "No locations available"
Errors == {ErrPlayerNotFound, ErrLocationNotFound, ErrNotConnected, ErrNotSameLocation}

VARIABLES
    Locations,      \* g.Locations: location id -> its Connections
    gen,            \* the locals of the GenerateGraph call of NewGame
    Players,        \* g.Players: player id -> [loc, health]
    clientPlayers,  \* g.clientPlayers: channel -> player id
    Mu,             \* the worker holding g.Mu for writing, or None
    ClientsMu,      \* the worker holding g.ClientsMu, or None
    chans,          \* channel -> [buf, closed]
    pc,             \* worker -> where its request stands
    call,           \* worker -> the locals of its request
    ev,             \* worker -> the event of its BroadcastEvent call
    todo,           \* worker -> clients its range loop has not visited yet
    spc,            \* subscriber -> where its handleSSE stands
    subPid,         \* subscriber -> playerID of its token
    wire,           \* subscriber -> events its drain loop wrote, in order
    subAt,          \* subscriber -> clock when its AddClient returned
    fault,          \* subscribers whose RemoveClient panicked
    clock,          \* BroadcastEvent calls so far: the Timestamp they assign
    globalTs,       \* timestamps of the global events broadcast so far
    hits            \* player id -> attack events broadcast with it as target

vars == <<Locations, gen, Players, clientPlayers, Mu, ClientsMu, chans, pc, call, ev, todo,
          spc, subPid, wire, subAt, fault, clock, globalTs, hits>>

\* ------------------------------------------------------------- data model
\* Event (events.go), Message abstracted to its fixed part
Event(type, player, target, loc, global, msg) ==
    [type |-> type, player |-> player, target |-> target, loc |-> loc,
     global |-> global, msg |-> msg, ts |-> 0]

\* what a receive from a closed, empty channel yields: the zero Event
ZeroEvent == Event("", None, None, "", FALSE, "")

\* the locals of one request: the operation, its arguments, the error it is
\* about to return ("" for nil), the health target.Health -= damage has
\* loaded, and two history fields: the events it has handed to BroadcastEvent
\* and g.Players as it was when the call validated its arguments
NoCall == [op |-> "", a |-> None, tgt |-> None, loc |-> "", old |-> "",
           err |-> "", h |-> 0, sent |-> <<>>, pre |-> <<>>]

NewChan == [buf |-> <<>>, closed |-> FALSE]

Remove(f, k) == [x \in (DOMAIN f) \ {k} |-> f[x]]

RECURSIVE containsFrom(_, _, _)
containsFrom(slice, item, i) ==
    IF i > Len(slice) THEN FALSE
    ELSE IF slice[i] = item THEN TRUE
    ELSE containsFrom(slice, item, i + 1)

\* contains (graph.go 80-87)
contains(slice, item) == containsFrom(slice, item, 1)

\* the keys of g.Locations
LocationIDs == DOMAIN Locations

\* the loop of MovePlayer over currentLoc.Connections
connected(currentLoc, locationID) ==
    containsFrom(Locations[currentLoc], locationID, 1)

\* GenerateGraph has returned: numLocations, the loop indices i and j,
\* numConnections, and the indices whose location got the fallback connection
GenDone(n, fell) ==
    [pc |-> "done", n |-> n, i |-> n, j |-> 0, num |-> 0, fell |-> fell]

\* ------------------------------------------------------------------- Init
GameInit ==
    /\ Players = <<>>
    /\ clientPlayers = <<>>
    /\ Mu = None
    /\ ClientsMu = None
    /\ chans = [s \in Subs |-> NewChan]
    /\ pc = [t \in AllWorkers |-> "idle"]
    /\ call = [t \in AllWorkers |-> NoCall]
    /\ ev = [t \in AllWorkers |-> ZeroEvent]
    /\ todo = [t \in AllWorkers |-> {}]
    /\ spc = [s \in Subs |-> "idle"]
    /\ subPid = [s \in Subs |-> None]
    /\ wire = [s \in Subs |-> <<>>]
    /\ subAt = [s \in Subs |-> 0]
    /\ fault = {}
    /\ clock = 0
    /\ globalTs = {}
    /\ hits = [p \in PlayerIDs |-> 0]

\* a game whose world NewGame has generated: the path world
Init ==
    /\ Locations = PathWorld
    /\ gen = GenDone(3, {})
    /\ GameInit

\* the goroutine is free to serve a request
MayStart(t) == pc[t] = "idle"

\* a write lock that does not exclude
MuLockable_Free == TRUE
\* g.Mu.Lock() returns: nobody holds the write side (read sections are atomic
\* steps of the model, so no reader is ever inside one between two states)
MuLockable == Mu = None
\* g.Mu.RLock() returns: no writer holds g.Mu (sync.RWMutex is not reentrant)
MuRLockable == Mu = None
\* a Lock that does not exclude
ClientsMuLockable_Free == TRUE
\* g.ClientsMu.Lock() returns: nobody holds g.ClientsMu
ClientsMuLockable == ClientsMu = None

worldVars == <<Locations, gen>>
workerVars == <<pc, call, ev, todo>>
subVars == <<spc, subPid, wire, subAt, fault>>

gameVars == <<Players, clientPlayers, Mu, ClientsMu, chans, workerVars, subVars,
              clock, globalTs, hits>>

\* ------------------------------------------------------------ graph.go
\* the identifier of locSlice[idx] (Go indices start at 0)
locID(idx) == LocationPool[idx + 1]

\* GenerateGraph lines 17-47 have run: numLocations locations without
\* connections, the outer loop is about to start
InitGraph ==
    /\ \E n \in 0..MaxLocations :
          /\ Locations = [l \in {locID(k) : k \in 0..(n - 1)} |-> <<>>]
          /\ gen = [pc |-> "loop", n |-> n, i |-> 0, j |-> 0, num |-> 0, fell |-> {}]
    /\ GameInit

\* an append without the membership test
appendNew_Always(slice, item) == Append(slice, item)

\* lines 59-61 and 62-64: append unless already connected
appendNew(slice, item) ==
    IF contains(slice, item) THEN slice ELSE Append(slice, item)

\* a connection recorded at its origin only
connect_OneWay(locations, a, b) ==
    [locations EXCEPT ![a] = appendNew(@, b)]

\* lines 56-64: the bidirectional connection of loc a and target b
connect(locations, a, b) ==
    [locations EXCEPT ![a] = appendNew(@, b), ![b] = appendNew(@, a)]

\* line 69: len(loc.Connections) == 0 && len(locSlice) > 1
needsFallback(locations, n, i) == Len(locations[locID(i)]) = 0 /\ n > 1

\* a generator without the fallback
ensureConnection_Skip(locations, n, i) == locations

\* lines 68-74: the connection to the next location of locSlice
ensureConnection(locations, n, i) ==
    IF needsFallback(locations, n, i)
    THEN LET loc == locID(i)
             target == locID((i + 1) % n)
         IN  [locations EXCEPT ![loc] = Append(@, target),
                               ![target] = Append(@, loc)]
    ELSE locations

\* lines 50-51: the outer loop takes locSlice[i] and draws numConnections
DrawCount(numConnections) ==
    /\ gen.pc = "loop"
    /\ gen.i < gen.n
    /\ gen' = [gen EXCEPT !.pc = "draw", !.num = numConnections, !.j = 0]
    /\ UNCHANGED <<Locations, gameVars>>

\* lines 53-66: one iteration of the inner loop with its draw of targetIdx
DrawTarget(targetIdx) ==
    /\ gen.pc = "draw"
    /\ gen.j < gen.num
    /\ Locations' = IF targetIdx # gen.i
                    THEN connect(Locations, locID(gen.i), locID(targetIdx))
                    ELSE Locations
    /\ gen' = [gen EXCEPT !.j = @ + 1]
    /\ UNCHANGED gameVars

\* lines 68-75: the inner loop is over, the fallback, the next location
EnsureConnection ==
    /\ gen.pc = "draw"
    /\ gen.j = gen.num
    /\ Locations' = ensureConnection(Locations, gen.n, gen.i)
    /\ gen' = [gen EXCEPT !.pc = "loop", !.i = @ + 1, !.j = 0, !.num = 0,
                          !.fell = IF needsFallback(Locations, gen.n, gen.i)
                                   THEN @ \cup {gen.i} ELSE @]
    /\ UNCHANGED gameVars

\* line 77: return locations
GenerateReturn ==
    /\ gen.pc = "loop"
    /\ gen.i = gen.n
    /\ gen' = [gen EXCEPT !.pc = "done"]
    /\ UNCHANGED <<Locations, gameVars>>

\* NewGame has returned the game
WorldReady == gen.pc = "done"

\* ------------------------------------------------------------ game.go
\* a validation that forgets the no-op move of line 143
moveError_NoSelfMove(players, playerID, locationID) ==
    IF playerID \notin DOMAIN players THEN ErrPlayerNotFound
    ELSE IF locationID \notin LocationIDs THEN ErrLocationNotFound
    ELSE IF ~connected(players[playerID].loc, locationID) THEN ErrNotConnected
    ELSE ""

\* a validation that checks the player only
moveError_Unchecked(players, playerID, locationID) ==
    IF playerID \notin DOMAIN players THEN ErrPlayerNotFound ELSE ""

\* MovePlayer lines 123-145: the error the validation returns, "" for none
moveError(players, playerID, locationID) ==
    IF playerID \notin DOMAIN players THEN ErrPlayerNotFound
    ELSE IF locationID \notin LocationIDs THEN ErrLocationNotFound
    ELSE IF ~connected(players[playerID].loc, locationID)
            /\ players[playerID].loc # locationID THEN ErrNotConnected
    ELSE ""

\* MovePlayer line 147: oldLocation := player.CurrentLocation
oldLocation(players, playerID) ==
    IF playerID \in DOMAIN players THEN players[playerID].loc ELSE ""

\* MovePlayer line 148: player.CurrentLocation = locationID
movedPlayers_Heal(players, playerID, locationID) ==
    [players EXCEPT ![playerID] = [loc |-> locationID, health |-> StartHealth]]

movedPlayers(players, playerID, locationID) ==
    [players EXCEPT ![playerID].loc = locationID]

\* a MovePlayer that writes the location before it checks the connection
moveResult_WriteFirst(players, playerID, locationID) ==
    IF playerID \in DOMAIN players /\ locationID \in LocationIDs
    THEN movedPlayers(players, playerID, locationID)
    ELSE players

\* g.Players when MovePlayer has passed line 148 or returned an error
moveResult(players, playerID, locationID) ==
    IF moveError(players, playerID, locationID) = ""
    THEN movedPlayers(players, playerID, locationID)
    ELSE players

\* MovePlayer lines 151-156 and 159-164: the two events
departureEvent(playerID, old) ==
    Event("player_moved", playerID, None, old, FALSE, "left the area")
arrivalEvent(playerID, locationID) ==
    Event("player_moved", playerID, None, locationID, FALSE, "arrived")

\* a MovePlayer that announces the arrival before the departure
moveEvents_ArrivalFirst(playerID, old, locationID) ==
    <<arrivalEvent(playerID, locationID), departureEvent(playerID, old)>>

\* the events MovePlayer hands to BroadcastEvent, in the order of its calls
moveEvents(playerID, old, locationID) ==
    <<departureEvent(playerID, old), arrivalEvent(playerID, locationID)>>

\* MovePlayer up to its first BroadcastEvent call (lines 119-151), or up to
\* the return of a validation error
MovePlayer(t, playerID, locationID) ==
    /\ MayStart(t)
    /\ MuLockable
    /\ Mu' = t
    /\ LET err == moveError(Players, playerID, locationID)
           old == oldLocation(Players, playerID)
           c == [NoCall EXCEPT !.op = "move", !.a = playerID, !.loc = locationID,
                               !.old = IF err = "" THEN old ELSE "",
                               !.err = err, !.pre = Players]
       IN  /\ call' = [call EXCEPT ![t] = c]
           /\ Players' = moveResult(Players, playerID, locationID)
           /\ IF err # ""
              THEN /\ pc' = [pc EXCEPT ![t] = "ret"]
                   /\ UNCHANGED ev
              ELSE /\ ev' = [ev EXCEPT ![t] = moveEvents(playerID, old, locationID)[1]]
                   /\ pc' = [pc EXCEPT ![t] = "bcast"]
    /\ UNCHANGED <<worldVars, clientPlayers, ClientsMu, chans, todo, subVars, clock, globalTs, hits>>

\* a validation that refuses an attack on oneself
attackError_NoSelf(players, attackerID, targetID) ==
    IF attackerID \notin DOMAIN players \/ targetID \notin DOMAIN players
    THEN ErrPlayerNotFound
    ELSE IF attackerID = targetID THEN "cannot attack yourself"
    ELSE IF players[attackerID].loc # players[targetID].loc THEN ErrNotSameLocation
    ELSE ""

\* AttackPlayer lines 173-182
attackError(players, attackerID, targetID) ==
    IF attackerID \notin DOMAIN players \/ targetID \notin DOMAIN players
    THEN ErrPlayerNotFound
    ELSE IF players[attackerID].loc # players[targetID].loc THEN ErrNotSameLocation
    ELSE ""

\* AttackPlayer lines 184-185: target.Health -= damage
damagedPlayers(players, targetID) ==
    [players EXCEPT ![targetID].health = @ - Damage]

\* a defeat test that misses a health of exactly zero
defeated_Strict(players, targetID) == players[targetID].health < 0
\* a defeat that leaves the health as the damage left it
flooredPlayers_Keep(players, targetID) == players
\* a defeat that deletes the player
flooredPlayers_Delete(players, targetID) == Remove(players, targetID)

\* AttackPlayer lines 196-197: if target.Health <= 0 { target.Health = 0 }
defeated(players, targetID) == players[targetID].health <= 0
flooredPlayers(players, targetID) ==
    [players EXCEPT ![targetID].health = 0]

attackEvent(attackerID, targetID, loc) ==
    Event("player_attack", attackerID, targetID, loc, FALSE, "attacked")
defeatedEvent(targetID, loc) ==
    Event("player_left", targetID, None, loc, FALSE, "has been defeated!")

\* AttackPlayer up to its first BroadcastEvent call (lines 169-188), or up to
\* the return of a validation error
AttackPlayer(t, attackerID, targetID) ==
    /\ MayStart(t)
    /\ MuLockable
    /\ Mu' = t
    /\ LET err == attackError(Players, attackerID, targetID)
           c == [NoCall EXCEPT !.op = "attack", !.a = attackerID,
                               !.tgt = targetID, !.err = err, !.pre = Players]
       IN  /\ call' = [call EXCEPT ![t] = c]
           /\ IF err # ""
              THEN /\ pc' = [pc EXCEPT ![t] = "ret"]
                   /\ UNCHANGED <<Players, ev>>
              ELSE /\ Players' = damagedPlayers(Players, targetID)
                   /\ ev' = [ev EXCEPT ![t] =
                               attackEvent(attackerID, targetID, Players[attackerID].loc)]
                   /\ pc' = [pc EXCEPT ![t] = "bcast"]
    /\ UNCHANGED <<worldVars, clientPlayers, ClientsMu, chans, todo, subVars, clock, globalTs, hits>>

\* a joined event scoped to a location (Global left false)
joinedEvent_Scoped(playerID) ==
    Event("player_joined", playerID, None, "", FALSE, "joined the game")

\* the event of AddPlayer (game.go 111-116)
joinedEvent(playerID) ==
    Event("player_joined", playerID, None, "", TRUE, "joined the game")

\* GetRandomLocation (game.go 92-100): the first location a map iteration
\* yields, which can be any of them; nil when the map is empty
GetRandomLocation == IF LocationIDs = {} THEN {NoLocation} ELSE LocationIDs

\* the player handlePlayers builds (handlers.go 227-232)
newPlayer(startLocation) == [loc |-> startLocation, health |-> StartHealth]

\* AddPlayer line 108: g.Players[player.ID] = player
addedPlayers(players, playerID, player) == players @@ (playerID :> player)

\* handlePlayers lines 220-234 with AddPlayer up to its BroadcastEvent call
\* (game.go 104-111), or up to the return of "No locations available";
\* GenerateID hands out an unused identifier
handlePlayers(t, startLocation) ==
    /\ MayStart(t)
    /\ Cardinality(DOMAIN Players) < MaxPlayers
    /\ MuRLockable
    /\ startLocation \in GetRandomLocation
    /\ LET playerID == Cardinality(DOMAIN Players) + 1
           c == [NoCall EXCEPT !.op = "join", !.a = playerID,
                               !.loc = startLocation, !.pre = Players]
       IN  IF startLocation = NoLocation
           THEN /\ call' = [call EXCEPT ![t] = [c EXCEPT !.err = ErrNoLocations]]
                /\ pc' = [pc EXCEPT ![t] = "ret"]
                /\ UNCHANGED <<Players, Mu, ev>>
           ELSE /\ MuLockable
                /\ Mu' = t
                /\ Players' = addedPlayers(Players, playerID, newPlayer(startLocation))
                /\ call' = [call EXCEPT ![t] = c]
                /\ ev' = [ev EXCEPT ![t] = joinedEvent(playerID)]
                /\ pc' = [pc EXCEPT ![t] = "bcast"]
    /\ UNCHANGED <<worldVars, clientPlayers, ClientsMu, chans, todo, subVars, clock, globalTs, hits>>

\* BroadcastEvent lines 47-50: g.ClientsMu.Lock() returns, the event gets its
\* Timestamp and the range loop starts over the clients registered now
BroadcastLock(t) ==
    /\ pc[t] = "bcast"
    /\ ClientsMuLockable
    /\ ClientsMu' = t
    /\ clock' = clock + 1
    /\ LET e == [ev[t] EXCEPT !.ts = clock + 1]
       IN  /\ ev' = [ev EXCEPT ![t] = e]
           /\ call' = [call EXCEPT ![t].sent = Append(@, e)]
           /\ globalTs' = IF e.global THEN globalTs \cup {e.ts} ELSE globalTs
           /\ hits' = IF e.type = "player_attack"
                      THEN [hits EXCEPT ![e.target] = @ + 1] ELSE hits
    /\ todo' = [todo EXCEPT ![t] = DOMAIN clientPlayers]
    /\ pc' = [pc EXCEPT ![t] = "iter"]
    /\ UNCHANGED <<worldVars, Players, clientPlayers, Mu, chans, subVars>>

\* a filter that knows no global events (it compares locations only)
shouldPlayerSeeEvent_NoGlobal(players, playerID, event) ==
    IF playerID \notin DOMAIN players THEN FALSE
    ELSE event.loc = players[playerID].loc

\* shouldPlayerSeeEvent lines 78-83, on the player read under the read lock
shouldPlayerSeeEvent(players, playerID, event) ==
    IF event.global THEN TRUE
    ELSE IF playerID \notin DOMAIN players THEN FALSE
    ELSE event.loc = players[playerID].loc

\* shouldPlayerSeeEvent returns: at once for a global event (line 69), and
\* for any other only after g.Mu.RLock() has returned (line 74)
seeReturns(event) == event.global \/ MuRLockable

\* a send that never finds the queue full
sendReady_Always(ch) == TRUE
\* case clientChan <- event  (line 56): the send is ready
sendReady(ch) == Len(ch.buf) < QueueCap
\* a queue that puts the newest event first
chanSend_Prepend(ch, event) == [ch EXCEPT !.buf = <<event>> \o @]
chanSend(ch, event) == [ch EXCEPT !.buf = Append(@, event)]
\* default (lines 59-60): close(clientChan); delete(g.clientPlayers, clientChan)
chanClose(ch) == [ch EXCEPT !.closed = TRUE]
\* an eviction that closes the channel and forgets the delete
evictClient_Keep(clients, c) == clients
evictClient(clients, c) == Remove(clients, c)

\* one iteration of the range loop of BroadcastEvent (lines 52-62) over a
\* client it has not visited, in the order the map iteration yields them
BroadcastIter(t) ==
    /\ pc[t] = "iter"
    /\ \E c \in todo[t] :
        /\ seeReturns(ev[t])
        /\ todo' = [todo EXCEPT ![t] = @ \ {c}]
        /\ IF ~shouldPlayerSeeEvent(Players, clientPlayers[c], ev[t])
           THEN UNCHANGED <<chans, clientPlayers>>
           ELSE IF sendReady(chans[c])
           THEN /\ chans' = [chans EXCEPT ![c] = chanSend(@, ev[t])]
                /\ UNCHANGED clientPlayers
           ELSE /\ chans' = [chans EXCEPT ![c] = chanClose(@)]
                /\ clientPlayers' = evictClient(clientPlayers, c)
    /\ UNCHANGED <<worldVars, Players, Mu, ClientsMu, pc, call, ev, subVars, clock, globalTs, hits>>

\* BroadcastEvent returns (the deferred g.ClientsMu.Unlock()) and its caller
\* goes on: MovePlayer to its second event (line 159), AttackPlayer to the
\* health check (lines 196-203), AddPlayer and the others to their return
BroadcastDone(t) ==
    /\ pc[t] = "iter"
    /\ todo[t] = {}
    /\ ClientsMu' = None
    /\ LET c == call[t]
       IN  IF c.op = "move" /\ Len(c.sent) = 1
           THEN /\ ev' = [ev EXCEPT ![t] = moveEvents(c.a, c.old, c.loc)[2]]
                /\ pc' = [pc EXCEPT ![t] = "bcast"]
                /\ UNCHANGED Players
           ELSE IF c.op = "attack" /\ Len(c.sent) = 1 /\ defeated(Players, c.tgt)
           THEN /\ Players' = flooredPlayers(Players, c.tgt)
                /\ ev' = [ev EXCEPT ![t] = defeatedEvent(c.tgt, Players[c.a].loc)]
                /\ pc' = [pc EXCEPT ![t] = "bcast"]
           ELSE /\ pc' = [pc EXCEPT ![t] = "ret"]
                /\ UNCHANGED <<Players, ev>>
    /\ UNCHANGED <<worldVars, clientPlayers, Mu, chans, call, todo, subVars, clock, globalTs, hits>>

\* an Unlock written before the final return only: error returns skip it
deferredUnlock_OnSuccess(mu, t, err) ==
    IF mu = t /\ err = "" THEN None ELSE mu

\* defer g.Mu.Unlock(): whatever the return, the caller's write lock goes
deferredUnlock(mu, t, err) == IF mu = t THEN None ELSE mu

\* the request returns: the deferred g.Mu.Unlock() of a mutation runs
Return(t) ==
    /\ pc[t] = "ret"
    /\ Mu' = deferredUnlock(Mu, t, call[t].err)
    /\ pc' = [pc EXCEPT ![t] = "idle"]
    /\ call' = [call EXCEPT ![t] = NoCall]
    /\ ev' = [ev EXCEPT ![t] = ZeroEvent]
    /\ UNCHANGED <<worldVars, Players, clientPlayers, ClientsMu, chans, todo, subVars, clock, globalTs, hits>>

\* ------------------------------------- game.go, statement by statement
\* MovePlayer and AttackPlayer as above, one step per statement, for callers
\* that run concurrently: a goroutine that has called is waiting in
\* g.Mu.Lock() until AcquireMu.
raceFrame == <<worldVars, clientPlayers, ClientsMu, chans, todo, subVars, clock,
               globalTs, hits>>

\* MovePlayer(playerID, locationID) is called (line 119)
CallMove(t, playerID, locationID) ==
    /\ MayStart(t)
    /\ call' = [call EXCEPT ![t] = [NoCall EXCEPT !.op = "move", !.a = playerID,
                                                  !.loc = locationID]]
    /\ pc' = [pc EXCEPT ![t] = "lock"]
    /\ UNCHANGED <<raceFrame, Players, Mu, ev>>

\* AttackPlayer(attackerID, targetID) is called (line 169)
CallAttack(t, attackerID, targetID) ==
    /\ MayStart(t)
    /\ call' = [call EXCEPT ![t] = [NoCall EXCEPT !.op = "attack", !.a = attackerID,
                                                  !.tgt = targetID]]
    /\ pc' = [pc EXCEPT ![t] = "lock"]
    /\ UNCHANGED <<raceFrame, Players, Mu, ev>>

\* g.Mu.Lock() returns (lines 120 and 170)
AcquireMu(t) ==
    /\ pc[t] = "lock"
    /\ MuLockable
    /\ Mu' = t
    /\ pc' = [pc EXCEPT ![t] = "check"]
    /\ UNCHANGED <<raceFrame, Players, call, ev>>

\* MovePlayer lines 123-145: the validation
MoveCheck(t) ==
    /\ pc[t] = "check"
    /\ call[t].op = "move"
    /\ LET err == moveError(Players, call[t].a, call[t].loc)
       IN  /\ call' = [call EXCEPT ![t].err = err, ![t].pre = Players]
           /\ pc' = [pc EXCEPT ![t] = IF err # "" THEN "ret" ELSE "write"]
    /\ UNCHANGED <<raceFrame, Players, Mu, ev>>

\* MovePlayer lines 147-151: oldLocation, the write, the departure event
MoveWrite(t) ==
    /\ pc[t] = "write"
    /\ LET c == call[t]
           old == oldLocation(Players, c.a)
       IN  /\ call' = [call EXCEPT ![t].old = old]
           /\ Players' = movedPlayers(Players, c.a, c.loc)
           /\ ev' = [ev EXCEPT ![t] = moveEvents(c.a, old, c.loc)[1]]
    /\ pc' = [pc EXCEPT ![t] = "bcast"]
    /\ UNCHANGED <<raceFrame, Mu>>

\* AttackPlayer lines 173-182: the validation
AttackCheck(t) ==
    /\ pc[t] = "check"
    /\ call[t].op = "attack"
    /\ LET err == attackError(Players, call[t].a, call[t].tgt)
       IN  /\ call' = [call EXCEPT ![t].err = err, ![t].pre = Players]
           /\ pc' = [pc EXCEPT ![t] = IF err # "" THEN "ret" ELSE "load"]
    /\ UNCHANGED <<raceFrame, Players, Mu, ev>>

\* AttackPlayer line 185, target.Health -= damage: the load of target.Health
AttackLoad(t) ==
    /\ pc[t] = "load"
    /\ call' = [call EXCEPT ![t].h = Players[call[t].tgt].health]
    /\ pc' = [pc EXCEPT ![t] = "store"]
    /\ UNCHANGED <<raceFrame, Players, Mu, ev>>

\* line 185: what the store of target.Health -= damage writes
storedHealth(players, targetID, h) ==
    [players EXCEPT ![targetID].health = h - Damage]

\* AttackPlayer lines 185-188: the store, then the attack event
AttackStore(t) ==
    /\ pc[t] = "store"
    /\ LET c == call[t]
       IN  /\ Players' = storedHealth(Players, c.tgt, c.h)
           /\ ev' = [ev EXCEPT ![t] = attackEvent(c.a, c.tgt, Players[c.a].loc)]
    /\ pc' = [pc EXCEPT ![t] = "bcast"]
    /\ UNCHANGED <<raceFrame, Mu, call>>

\* -------------------------------------------------------- handlers.go
\* handleSSE lines 361-372: GetPlayer(playerID) is not nil, the channel is made
\* (channels are numbered in the order they are made)
handleSSE(s, playerID) ==
    /\ spc[s] = "idle"
    /\ s = 1 + Cardinality({x \in Subs : spc[x] # "idle"})
    /\ MuRLockable
    /\ playerID \in DOMAIN Players
    /\ subPid' = [subPid EXCEPT ![s] = playerID]
    /\ chans' = [chans EXCEPT ![s] = NewChan]
    /\ spc' = [spc EXCEPT ![s] = "add"]
    /\ UNCHANGED <<worldVars, Players, clientPlayers, Mu, ClientsMu, workerVars, wire, subAt,
                   fault, clock, globalTs, hits>>

\* AddClient (game.go 32-36), called at handlers.go 373
AddClient(s) ==
    /\ spc[s] = "add"
    /\ ClientsMuLockable
    /\ clientPlayers' = clientPlayers @@ (s :> subPid[s])
    /\ subAt' = [subAt EXCEPT ![s] = clock]
    /\ spc' = [spc EXCEPT ![s] = "loop"]
    /\ UNCHANGED <<worldVars, Players, Mu, ClientsMu, chans, workerVars, subPid, wire, fault,
                   clock, globalTs, hits>>

\* event := <-eventChan: the head of the buffer, or the zero Event at once
\* when the channel is closed and empty; blocks otherwise
recvReady(ch) == Len(ch.buf) > 0 \/ ch.closed
recvValue(ch) == IF Len(ch.buf) > 0 THEN Head(ch.buf) ELSE ZeroEvent
recvRest(ch) == IF Len(ch.buf) > 0 THEN [ch EXCEPT !.buf = Tail(@)] ELSE ch

ZeroReads(s) == Cardinality({i \in 1..Len(wire[s]) : wire[s][i] = ZeroEvent})

\* the drain loop, case event := <-eventChan (handlers.go 399-408): the event
\* is written to the wire
Drain(s) ==
    /\ spc[s] = "loop"
    /\ recvReady(chans[s])
    /\ Len(chans[s].buf) = 0 => ZeroReads(s) < MaxZeroReads
    /\ wire' = [wire EXCEPT ![s] = Append(@, recvValue(chans[s]))]
    /\ chans' = [chans EXCEPT ![s] = recvRest(@)]
    /\ UNCHANGED <<worldVars, Players, clientPlayers, Mu, ClientsMu, workerVars, spc, subPid,
                   subAt, fault, clock, globalTs, hits>>

\* the drain loop, case <-r.Context().Done() (handlers.go 414-415): return,
\* which runs the deferred g.RemoveClient(eventChan)
Cancel(s) ==
    /\ spc[s] = "loop"
    /\ spc' = [spc EXCEPT ![s] = "remove"]
    /\ UNCHANGED <<worldVars, Players, clientPlayers, Mu, ClientsMu, chans, workerVars, subPid,
                   wire, subAt, fault, clock, globalTs, hits>>

\* close(ch) on a closed channel panics ("close of closed channel")
closePanics(ch) == ch.closed

\* a RemoveClient that closes the channel and forgets the delete
removeClient_Keep(clients, ch) == clients

\* RemoveClient line 41: delete(g.clientPlayers, ch)
removeClient(clients, ch) == Remove(clients, ch)

\* RemoveClient (game.go 38-43); the deferred Unlock runs also when close
\* panics, and net/http recovers the panic of the handler goroutine. handleSSE
\* has returned: its locals and its response stream are gone
RemoveClient(s) ==
    /\ spc[s] = "remove"
    /\ ClientsMuLockable
    /\ clientPlayers' = removeClient(clientPlayers, s)
    /\ fault' = IF closePanics(chans[s]) THEN fault \cup {s} ELSE fault
    /\ chans' = [chans EXCEPT ![s] = chanClose(@)]
    /\ spc' = [spc EXCEPT ![s] = "gone"]
    /\ subPid' = [subPid EXCEPT ![s] = None]
    /\ wire' = [wire EXCEPT ![s] = <<>>]
    /\ subAt' = [subAt EXCEPT ![s] = 0]
    /\ UNCHANGED <<worldVars, Players, Mu, ClientsMu, workerVars, clock, globalTs, hits>>

\* ------------------------------------------------------------------ Next
WorkerStep(t) ==
    \/ BroadcastLock(t)
    \/ BroadcastIter(t)
    \/ BroadcastDone(t)
    \/ Return(t)

\* location-scoped events broadcast so far
ScopedEvents == clock - Cardinality(globalTs)

\* the requests clients send: joins while fewer than maxJoin players exist,
\* at a start location among startLocs; moves and attacks, those that pass
\* validation only while fewer than maxActs location-scoped events have
\* been broadcast; SSE connections and their cancellation
Requests(maxJoin, startLocs, maxActs) ==
    \/ \E t \in Workers, l \in startLocs :
            Cardinality(DOMAIN Players) < maxJoin /\ handlePlayers(t, l)
    \/ \E t \in Workers, p \in PlayerIDs, l \in LocationArgs :
            /\ moveError(Players, p, l) # "" \/ ScopedEvents < maxActs
            /\ MovePlayer(t, p, l)
    \/ \E t \in Workers, a \in PlayerIDs, b \in PlayerIDs :
            /\ attackError(Players, a, b) # "" \/ ScopedEvents < maxActs
            /\ AttackPlayer(t, a, b)
    \/ \E s \in Subs, p \in PlayerIDs : handleSSE(s, p)
    \/ \E s \in Subs : Cancel(s)

\* the steps of the goroutines already running
Steps ==
    \/ \E t \in Workers : WorkerStep(t)
    \/ \E s \in Subs : AddClient(s)
    \/ \E s \in Subs : Drain(s)
    \/ \E s \in Subs : RemoveClient(s)

\* the world at small scale: WorldPlayers players that start anywhere
Next == Requests(WorldPlayers, LocationIDs, MaxActionEvents) \/ Steps

Spec == Init /\ [][Next]_vars

\* the subscriber queues at full scale: every player joins, at location B
NextQueue == Requests(MaxPlayers, {"B"}, QueueActionEvents) \/ Steps

SpecQueue == Init /\ [][NextQueue]_vars

\* world generation by GenerateGraph(n) for n up to MaxLocations, then joins
\* in the generated world (no subscriber connects)
NextGraph ==
    \/ \E numConnections \in 1..3 : DrawCount(numConnections)
    \/ \E targetIdx \in 0..(gen.n - 1) : DrawTarget(targetIdx)
    \/ EnsureConnection
    \/ GenerateReturn
    \/ \E t \in Workers, l \in GetRandomLocation :
            /\ WorldReady
            /\ Cardinality(DOMAIN Players) < GraphPlayers
            /\ handlePlayers(t, l)
    \/ \E t \in Workers : BroadcastLock(t)
    \/ \E t \in Workers : BroadcastDone(t)
    \/ \E t \in Workers : Return(t)

SpecGraph == InitGraph /\ [][NextGraph]_vars

\* combat at full scale: WorldPlayers players that start in A or B attack
\* each other until AttackEvents events; one subscriber connects
NextAttack ==
    \/ \E t \in Workers, l \in {"A", "B"} :
            Cardinality(DOMAIN Players) < WorldPlayers /\ handlePlayers(t, l)
    \/ \E t \in Workers, a \in PlayerIDs, b \in PlayerIDs :
            /\ attackError(Players, a, b) # "" \/ ScopedEvents < AttackEvents
            /\ AttackPlayer(t, a, b)
    \/ \E p \in PlayerIDs : handleSSE(1, p)
    \/ Cancel(1)
    \/ Steps

SpecAttack == Init /\ [][NextAttack]_vars

\* identifiers the concurrent callers name: the players and one unknown
RaceIDs == 1..(WorldPlayers + 1)

\* concurrent callers: WorldPlayers players join at B, then RaceWorkers
\* goroutines call MovePlayer and AttackPlayer, statement by statement, until
\* RaceEvents events (no subscriber connects)
NextRace ==
    \/ \E t \in Racers :
            Cardinality(DOMAIN Players) < WorldPlayers /\ handlePlayers(t, "B")
    \/ \E t \in Racers, p \in RaceIDs, l \in LocationArgs :
            ScopedEvents < RaceEvents /\ CallMove(t, p, l)
    \/ \E t \in Racers, a \in RaceIDs, b \in RaceIDs :
            ScopedEvents < RaceEvents /\ CallAttack(t, a, b)
    \/ \E t \in Racers : AcquireMu(t)
    \/ \E t \in Racers : MoveCheck(t)
    \/ \E t \in Racers : MoveWrite(t)
    \/ \E t \in Racers : AttackCheck(t)
    \/ \E t \in Racers : AttackLoad(t)
    \/ \E t \in Racers : AttackStore(t)
    \/ \E t \in Racers : BroadcastLock(t)
    \/ \E t \in Racers : BroadcastDone(t)
    \/ \E t \in Racers : Return(t)

SpecRace == Init /\ [][NextRace]_vars

\* handleSSE statement by statement: g.AddClient(eventChan, playerID) returns
\* (handlers.go 373), the welcome event is still to be built
AddClientStmt(s) ==
    /\ spc[s] = "add"
    /\ ClientsMuLockable
    /\ clientPlayers' = clientPlayers @@ (s :> subPid[s])
    /\ subAt' = [subAt EXCEPT ![s] = clock]
    /\ spc' = [spc EXCEPT ![s] = "welcome"]
    /\ UNCHANGED <<worldVars, Players, Mu, ClientsMu, chans, workerVars, subPid, wire, fault,
                   clock, globalTs, hits>>

\* a MovePlayer holds g.Mu and is at its write of playerID's CurrentLocation
\* (game.go 148)
writePending(t, playerID) == pc[t] = "write" /\ call[t].a = playerID

\* what the read of player.CurrentLocation at handlers.go 384-385 can yield:
\* the handler holds no lock (GetPlayer released its read lock on return,
\* line 361), so with a write of the field pending the read races with it
\* and yields the old or the new value
welcomeLocations(playerID) ==
    {Players[playerID].loc}
        \cup {call[t].loc : t \in {u \in AllWorkers : writePending(u, playerID)}}

\* handlers.go 382-392: the welcome event is built from player.CurrentLocation
\* and written to the response
Welcome(s) ==
    /\ spc[s] = "welcome"
    /\ \E loc \in welcomeLocations(subPid[s]) :
            wire' = [wire EXCEPT ![s] =
                        Append(@, Event("connected", None, None, loc, FALSE, "connected"))]
    /\ spc' = [spc EXCEPT ![s] = "loop"]
    /\ UNCHANGED <<worldVars, Players, clientPlayers, Mu, ClientsMu, chans, workerVars,
                   subPid, subAt, fault, clock, globalTs, hits>>

\* one subscription served statement by statement while players join and
\* move statement by statement
NextRead ==
    \/ \E t \in Racers :
            Cardinality(DOMAIN Players) < WorldPlayers /\ handlePlayers(t, "B")
    \/ \E p \in PlayerIDs : handleSSE(1, p)
    \/ AddClientStmt(1)
    \/ Welcome(1)
    \/ Drain(1)
    \/ Cancel(1)
    \/ RemoveClient(1)
    \/ \E t \in Racers, p \in RaceIDs, l \in LocationArgs :
            ScopedEvents < QueueActionEvents /\ CallMove(t, p, l)
    \/ \E t \in Racers : AcquireMu(t)
    \/ \E t \in Racers : MoveCheck(t)
    \/ \E t \in Racers : MoveWrite(t)
    \/ \E t \in Racers : BroadcastLock(t)
    \/ \E t \in Racers : BroadcastIter(t)
    \/ \E t \in Racers : BroadcastDone(t)
    \/ \E t \in Racers : Return(t)

SpecRead == Init /\ [][NextRead]_vars

\* the Go scheduler runs every goroutine that can run: a step of a request
\* being served, of an AddClient, a drain loop or a RemoveClient that stays
\* possible is taken (requests themselves come or do not come)
Fairness ==
    /\ \A t \in Workers : WF_vars(WorkerStep(t))
    /\ \A s \in Subs : WF_vars(AddClient(s))
    /\ \A s \in Subs : WF_vars(Drain(s))
    /\ \A s \in Subs : WF_vars(RemoveClient(s))

\* Spec with the scheduler's fairness
SpecLive == Init /\ [][Next]_vars /\ Fairness

\* ---------------------------------------------------------------- claims
Range(seq) == {seq[i] : i \in 1..Len(seq)}

\* a call that has started and not returned: a mutation past its g.Mu.Lock(),
\* an AddClient or a RemoveClient that has been called
CallStarted ==
    \/ \E t \in Workers : pc[t] # "idle"
    \/ \E s \in Subs : spc[s] \in {"add", "remove"}

\* C1: no deadlock is reachable among MovePlayer, AttackPlayer, AddPlayer,
\* AddClient and RemoveClient calls: whenever calls have started, at least
\* one of them can take its next step (acquire the lock it waits for, or go
\* on and return).
C1_NoDeadlock ==
    CallStarted =>
        \/ \E t \in Workers : pc[t] # "idle" /\ ENABLED WorkerStep(t)
        \/ \E s \in Subs : ENABLED AddClient(s) \/ ENABLED RemoveClient(s)

\* what the claim says MovePlayer(p, L) returns in the world `players`
C2_Expected(players, p, L) ==
    IF p \notin DOMAIN players THEN "player not found"
    ELSE IF L \notin LocationIDs THEN "location not found"
    ELSE IF L \in Range(Locations[players[p].loc]) \/ L = players[p].loc THEN ""
    ELSE "location not connected"

\* C2: MovePlayer(p, L) fails with "player not found" for an unknown p, else
\* with "location not found" for an unknown L, else with "location not
\* connected" unless L is connected to or equal to p's current location;
\* otherwise it goes on without error and p's current location is L.
C2_MoveOutcome ==
    \A t \in Workers :
        (pc[t] # "idle" /\ call[t].op = "move") =>
            /\ call[t].err = C2_Expected(call[t].pre, call[t].a, call[t].loc)
            /\ call[t].err # "" => pc[t] = "ret" /\ Players = call[t].pre
            /\ call[t].err = "" => Players[call[t].a].loc = call[t].loc

\* a move to a connected, different location is returning nil
C2_Witness ==
    \E t \in Workers :
        /\ pc[t] = "ret" /\ call[t].op = "move" /\ call[t].err = ""
        /\ call[t].pre[call[t].a].loc # call[t].loc

\* C3: a MovePlayer that returns nil has handed exactly two events to
\* BroadcastEvent, both location-scoped: first the departure, scoped to the
\* location the player had before the call, then the arrival, scoped to the
\* new location.
C3_MoveEvents ==
    \A t \in Workers :
        (pc[t] = "ret" /\ call[t].op = "move" /\ call[t].err = "") =>
            LET sent == call[t].sent
            IN  /\ Len(sent) = 2
                /\ \A i \in 1..2 : ~sent[i].global /\ sent[i].type = "player_moved"
                                      /\ sent[i].player = call[t].a
                /\ sent[1].msg = "left the area"
                /\ sent[1].loc = call[t].pre[call[t].a].loc
                /\ sent[2].msg = "arrived"
                /\ sent[2].loc = call[t].loc
                /\ sent[1].ts < sent[2].ts

\* a move between two different locations has returned nil
C3_Witness ==
    \E t \in Workers :
        /\ pc[t] = "ret" /\ call[t].op = "move" /\ call[t].err = ""
        /\ Len(call[t].sent) = 2
        /\ call[t].sent[1].loc # call[t].sent[2].loc

\* C4: a MovePlayer or AttackPlayer call that returns an error changes no
\* player, no registration and no queue and emits no event: neither its
\* step up to the error nor its return does.
C4_ErrorLeavesWorld ==
    [][\A t \in Workers :
          /\ (pc'[t] # pc[t] /\ call'[t].err \in Errors) =>
                /\ UNCHANGED <<Players, clientPlayers, chans, clock>>
                /\ call'[t].sent = <<>>
                /\ pc'[t] = "ret"
          /\ (pc'[t] # pc[t] /\ call[t].err \in Errors) =>
                /\ UNCHANGED <<Players, clientPlayers, chans, clock>>
                /\ pc'[t] = "idle"]_vars

\* a move is returning "location not connected" while a subscriber with a
\* pending event is registered
C4_Witness ==
    \E t \in Workers :
        /\ pc[t] = "ret" /\ call[t].op = "move" /\ call[t].err = ErrNotConnected
        /\ \E s \in DOMAIN clientPlayers : Len(chans[s].buf) > 0

\* the events BroadcastEvent has placed in the queue of s that are still
\* known: those its drain loop wrote (zero values of a closed channel left
\* out), then those pending
IsEvent(e) == e.ts > 0
Delivered(s) == SelectSeq(wire[s], IsEvent) \o chans[s].buf

\* the broadcast with timestamp g has not visited s yet
InFlight(g, s) ==
    \E t \in Workers : pc[t] = "iter" /\ ev[t].ts = g /\ s \in todo[t]

\* C6: a subscription that is still registered has, in its queue or already
\* drained, every global event broadcast after its AddClient returned (once
\* that broadcast has visited it).
C6_GlobalDelivered ==
    \A s \in DOMAIN clientPlayers :
        \A g \in globalTs :
            (g > subAt[s] /\ ~InFlight(g, s)) =>
                \E i \in 1..Len(Delivered(s)) :
                    Delivered(s)[i].ts = g /\ Delivered(s)[i].global

\* a registered subscriber has been delivered two global events
C6_Witness ==
    \E s \in DOMAIN clientPlayers :
        /\ Cardinality({g \in globalTs : g > subAt[s]}) >= 2
        /\ Len(Delivered(s)) >= 2
        /\ \A t \in Workers : pc[t] # "iter"

\* the step closes the open, registered queue c and is no RemoveClient
EvictionStep(c) ==
    /\ c \in DOMAIN clientPlayers
    /\ ~chans[c].closed
    /\ chans'[c].closed
    /\ spc'[c] = spc[c]

\* C7: a broadcast that must deliver to a full queue does not wait: it closes
\* that queue, removes its registration and drops the event for it alone (no
\* other queue or registration changes in that step), the broadcast can
\* always go on to its end, and every other subscriber it has visited and
\* that is still registered has the event.
C7_Eviction ==
    /\ [][\A c \in Subs :
            EvictionStep(c) =>
                /\ Len(chans[c].buf) = QueueCap
                /\ chans'[c].buf = chans[c].buf
                /\ c \notin DOMAIN clientPlayers'
                /\ \A d \in Subs \ {c} :
                      /\ chans'[d] = chans[d]
                      /\ d \in DOMAIN clientPlayers <=> d \in DOMAIN clientPlayers'
                /\ \E t \in Workers :
                      /\ pc[t] = "iter" /\ pc'[t] = "iter" /\ ClientsMu' = t
                      /\ c \in todo[t] /\ todo'[t] = todo[t] \ {c}]_vars
    /\ [](\A t \in Workers :
            (pc[t] = "iter" /\ ev[t].global) =>
                /\ ENABLED (BroadcastIter(t) \/ BroadcastDone(t))
                /\ \A d \in (DOMAIN clientPlayers) \ todo[t] :
                      ev[t] \in Range(chans[d].buf) \cup Range(wire[d]))

\* a global broadcast has ended its loop having evicted the full queue c
\* and delivered its event to another subscriber d
C7_Witness ==
    \E t \in Workers, c \in Subs, d \in Subs :
        /\ c # d
        /\ pc[t] = "iter" /\ todo[t] = {} /\ ev[t].global
        /\ chans[c].closed /\ spc[c] = "loop"
        /\ Len(chans[c].buf) = QueueCap
        /\ chans[c].buf[QueueCap].ts + 1 = ev[t].ts
        /\ d \in DOMAIN clientPlayers
        /\ ev[t] \in Range(chans[d].buf)

IsSuffix(a, b) ==
    /\ Len(a) <= Len(b)
    /\ \A i \in 1..Len(a) : a[i] = b[Len(b) - Len(a) + i]

\* C8: a queue closed by RemoveClient or by eviction stays closed, is never
\* registered (again) and no event is placed in it: its content only shrinks
\* from the head.
C8_Terminal ==
    /\ [](\A c \in Subs : chans[c].closed => c \notin DOMAIN clientPlayers)
    /\ [][\A c \in Subs :
            chans[c].closed =>
                /\ chans'[c].closed
                /\ c \notin DOMAIN clientPlayers'
                /\ IsSuffix(chans'[c].buf, chans[c].buf)]_vars

\* a queue was evicted and a later BroadcastEvent call has started since
C8_Witness ==
    \E c \in Subs :
        /\ chans[c].closed /\ spc[c] = "loop"
        /\ Len(chans[c].buf) = QueueCap
        /\ clock >= chans[c].buf[QueueCap].ts + 2

\* C9: RemoveClient on a subscription that was already removed or evicted is
\* a no-op that does not fault: no RemoveClient panics.
C9_RemoveClientNoFault == fault = {}

\* C10: the events of one subscriber's queue, drained and pending, are in the
\* order of the BroadcastEvent calls that placed them, each once: their
\* timestamps strictly increase.
C10_FIFO ==
    \A s \in Subs :
        LET d == Delivered(s)
        IN  /\ \A i \in 1..Len(d) : d[i].ts \in 1..clock
            /\ \A i \in 1..Len(d), j \in 1..Len(d) : i < j => d[i].ts < d[j].ts

\* a drain loop has written two events that sat in its queue together
C10_Witness ==
    \E s \in Subs :
        /\ Len(SelectSeq(wire[s], IsEvent)) >= 2
        /\ Len(chans[s].buf) >= 1

\* an AttackPlayer call of worker t that passed validation is returning
AttackReturns(t) == pc[t] = "ret" /\ call[t].op = "attack" /\ call[t].err = ""

\* C11: whenever the write side of Mu is not held, every player's health is
\* in 0..100: no sequence of AttackPlayer calls leaves a health below zero.
C11_HealthRange ==
    Mu = None => \A p \in DOMAIN Players : Players[p].health \in 0..StartHealth

\* only one player was ever hit, it stands at zero, and it has been attacked
\* once more after its defeat
C11_Witness ==
    /\ Mu = None
    /\ ScopedEvents >= 13
    /\ \E p \in DOMAIN Players :
          /\ Players[p].health = 0
          /\ \A q \in (DOMAIN Players) \ {p} : Players[q].health = StartHealth

\* C12: an AttackPlayer that returns nil and leaves the target above zero has
\* handed exactly one event to BroadcastEvent, the attack event scoped to the
\* shared location; one that brings the target from above zero to zero has
\* handed exactly two, the attack event and then the defeated event, both
\* scoped to the shared location.
C12_AttackEvents ==
    \A t \in Workers :
        AttackReturns(t) =>
            LET c == call[t]
                h == c.pre[c.tgt].health
                sent == c.sent
            IN  /\ Len(sent) >= 1
                /\ \A i \in 1..Len(sent) :
                      ~sent[i].global /\ sent[i].loc = c.pre[c.a].loc
                /\ sent[1].type = "player_attack"
                /\ sent[1].player = c.a /\ sent[1].target = c.tgt
                /\ h > Damage => Len(sent) = 1 /\ Players[c.tgt].health > 0
                /\ h \in 1..Damage =>
                      /\ Len(sent) = 2
                      /\ sent[2].type = "player_left"
                      /\ sent[2].player = c.tgt
                      /\ sent[2].msg = "has been defeated!"
                      /\ sent[1].ts < sent[2].ts
                      /\ Players[c.tgt].health = 0

\* the attack that defeats another player is returning
C12_Witness ==
    \E t \in Workers :
        /\ AttackReturns(t)
        /\ call[t].a # call[t].tgt
        /\ call[t].pre[call[t].tgt].health = Damage
        /\ Len(call[t].sent) = 2

\* C13: an attack on a target that is already defeated (health 0 when the
\* call starts) emits no defeated event: the defeated event of a target is
\* emitted once, by the attack that brings its health to zero.
C13_DefeatedOnce ==
    \A t \in Workers :
        (AttackReturns(t) /\ call[t].pre[call[t].tgt].health = 0) =>
            \A i \in 1..Len(call[t].sent) : call[t].sent[i].type # "player_left"

\* what the claim says AttackPlayer(a, b) returns in the world `players`
C14_Expected(players, a, b) ==
    IF a \notin DOMAIN players \/ b \notin DOMAIN players THEN "player not found"
    ELSE IF players[a].loc # players[b].loc THEN "players not in same location"
    ELSE ""

Max(x, y) == IF x >= y THEN x ELSE y

\* C14: AttackPlayer(a, b) fails with "player not found" if a or b is unknown,
\* else with "players not in same location" if their locations differ;
\* otherwise it goes on without error, whatever the health of b and also when
\* a = b, and takes the damage from b's health (floored at zero when it
\* returns), changing no other player.
C14_AttackOutcome ==
    \A t \in Workers :
        (pc[t] # "idle" /\ call[t].op = "attack") =>
            LET c == call[t]
            IN  /\ c.err = C14_Expected(c.pre, c.a, c.tgt)
                /\ c.err # "" => pc[t] = "ret" /\ Players = c.pre
                /\ c.err = "" =>
                      LET h == c.pre[c.tgt].health
                      IN  /\ Players[c.tgt].health \in {h - Damage, Max(0, h - Damage)}
                          /\ pc[t] = "ret" => Players[c.tgt].health = Max(0, h - Damage)
                          /\ Players[c.tgt].loc = c.pre[c.tgt].loc
                          /\ \A q \in (DOMAIN c.pre) \ {c.tgt} : Players[q] = c.pre[q]
                          /\ DOMAIN Players = DOMAIN c.pre

\* a player already defeated attacks itself and the call is returning nil
C14_Witness ==
    \E t \in Workers :
        /\ AttackReturns(t)
        /\ call[t].a = call[t].tgt
        /\ call[t].pre[call[t].tgt].health = 0

\* C15: every player's current location is a location of the world.
C15_LocationExists ==
    \A p \in DOMAIN Players : Players[p].loc \in DOMAIN Locations

\* after an attack, a move to another location is returning nil
C15_Witness ==
    \E t \in Workers :
        /\ pc[t] = "ret" /\ call[t].op = "move" /\ call[t].err = ""
        /\ Players[call[t].a].loc # call[t].pre[call[t].a].loc
        /\ \E q \in DOMAIN Players : Players[q].health < StartHealth

\* a handlePlayers request of worker t is past its GetRandomLocation call
JoinStarted(t) == pc[t] # "idle" /\ call[t].op = "join"

\* C16: a join in a world with a location adds exactly one new player, at a
\* location of the world and with health 100, changes no other player and
\* emits exactly one event, a global player-joined event; a join in a world
\* without locations fails with "No locations available", adds no player and
\* emits no event.
C16_Join ==
    \A t \in Workers :
        JoinStarted(t) =>
            LET c == call[t]
            IN  /\ LocationIDs # {} =>
                      /\ c.err = ""
                      /\ c.a \notin DOMAIN c.pre
                      /\ DOMAIN Players = (DOMAIN c.pre) \cup {c.a}
                      /\ Players[c.a].loc \in LocationIDs
                      /\ Players[c.a].health = 100
                      /\ \A q \in DOMAIN c.pre : Players[q] = c.pre[q]
                      /\ Len(c.sent) <= 1
                      /\ pc[t] = "ret" =>
                            /\ Len(c.sent) = 1
                            /\ c.sent[1].global
                            /\ c.sent[1].type = "player_joined"
                            /\ c.sent[1].player = c.a
                /\ LocationIDs = {} =>
                      /\ c.err = "No locations available"
                      /\ pc[t] = "ret"
                      /\ Players = c.pre
                      /\ c.sent = <<>>

\* a second player has joined a generated world of at least two locations
\* and the request is returning
C16_Witness ==
    \E t \in Workers :
        /\ JoinStarted(t) /\ pc[t] = "ret" /\ call[t].err = ""
        /\ DOMAIN call[t].pre # {}
        /\ Cardinality(LocationIDs) >= 2
        /\ Len(call[t].sent) = 1

\* C17: a world GenerateGraph(n) returns has n locations; for n >= 2 every
\* location has at least one connection, for n = 1 the location has none.
C17_MinDegree ==
    WorldReady =>
        /\ Cardinality(LocationIDs) = gen.n
        /\ gen.n >= 2 => \A l \in LocationIDs : Len(Locations[l]) >= 1
        /\ gen.n = 1 => \A l \in LocationIDs : Locations[l] = <<>>

\* a world of at least three locations whose last location was left without
\* a connection by the draws and got the fallback connection to the first
C17_Witness ==
    /\ WorldReady
    /\ gen.n >= 3
    /\ (gen.n - 1) \in gen.fell

\* C18: in a world GenerateGraph returns a location lists another as a
\* connection iff the other lists it, and lists locations of the world only.
C18_Symmetric ==
    WorldReady =>
        \A a \in LocationIDs :
            /\ Range(Locations[a]) \subseteq LocationIDs
            /\ \A b \in LocationIDs :
                  contains(Locations[a], b) <=> contains(Locations[b], a)

\* a world in which a location connected by the fallback only is one of the
\* three connections of another location
C18_Witness ==
    /\ WorldReady
    /\ \E k \in gen.fell, b \in LocationIDs :
          /\ Len(Locations[locID(k)]) = 1
          /\ Len(Locations[b]) >= 3
          /\ contains(Locations[b], locID(k))

\* the locations one connection away from a location of S, and S
Neighbours(S) ==
    S \cup {b \in LocationIDs : \E a \in S : contains(Locations[a], b)}

RECURSIVE Closure(_, _)
Closure(S, k) == IF k = 0 THEN S ELSE Closure(Neighbours(S), k - 1)

\* the locations a player at location a reaches by valid moves
Reachable(a) == Closure({a}, Cardinality(LocationIDs))

\* C19: a world GenerateGraph returns is connected: every location is
\* reachable from every other location by following connections.
C19_Connected ==
    WorldReady => \A a \in LocationIDs : Reachable(a) = LocationIDs

\* C20: a player once added stays in g.Players under its identifier, and a
\* defeated player stays defeated: GetPlayer returns it, with health 0,
\* whenever its read lock can be taken.
C20_NeverDeleted ==
    /\ [][\A p \in DOMAIN Players :
            /\ p \in DOMAIN Players'
            /\ Players[p].health <= 0 => Players'[p].health <= 0]_vars
    /\ [](MuRLockable =>
            \A p \in DOMAIN Players :
                Players[p].health <= 0 => Players[p].health = 0)

\* a player defeated earlier has been attacked again by another player, the
\* call is returning and the player is still there with health 0
C20_Witness ==
    \E t \in Workers :
        /\ AttackReturns(t)
        /\ call[t].a # call[t].tgt
        /\ call[t].pre[call[t].tgt].health = 0
        /\ call[t].tgt \in DOMAIN Players
        /\ Players[call[t].tgt].health = 0

\* C21: no caller is inside BroadcastEvent (about to take ClientsMu, or in
\* its loop) while it holds the write side of Mu: every mutation releases Mu
\* before it hands its events to BroadcastEvent.
C21_UnlockedBroadcast ==
    \A t \in AllWorkers : pc[t] \in {"bcast", "iter"} => Mu # t

\* C22: no caller requests Mu while it holds ClientsMu: the holder of
\* ClientsMu is never about to call shouldPlayerSeeEvent for an event that is
\* not global (the call that takes g.Mu.RLock()).
C22_NoNestedLock ==
    \A t \in AllWorkers :
        ClientsMu = t => ~(pc[t] = "iter" /\ todo[t] # {} /\ ~ev[t].global)

\* C23: whatever RemoveClient calls run or wait meanwhile, every queue the
\* loop of a BroadcastEvent call has still to visit is open and registered:
\* the call never sends on and never closes a closed queue.
C23_NoClosedTarget ==
    \A t \in AllWorkers :
        pc[t] = "iter" =>
            \A c \in todo[t] : ~chans[c].closed /\ c \in DOMAIN clientPlayers

\* a RemoveClient call waits for ClientsMu while the broadcast that holds it
\* has still to visit the queue the call will close
C23_Witness ==
    \E t \in Workers, s \in Subs :
        /\ pc[t] = "iter" /\ ClientsMu = t
        /\ spc[s] = "remove"
        /\ s \in todo[t]

\* an AttackPlayer call on p is between its Lock and its return
Attacking(t, p) ==
    pc[t] \notin {"idle", "lock"} /\ call[t].op = "attack" /\ call[t].tgt = p

\* C24: whenever no attack on a player is in progress, the player's health is
\* max(0, 100 - 10 * n) for the n attacks on it that passed validation,
\* however the concurrent calls interleave: no damage is lost or doubled.
C24_AtomicAttacks ==
    \A p \in DOMAIN Players :
        (\A t \in AllWorkers : ~Attacking(t, p)) =>
            Players[p].health = Max(0, StartHealth - Damage * hits[p])

\* after one attack on p, a second is between the load and the store of p's
\* health while a third caller waits for Mu to attack p too
C24_Witness ==
    \E t \in Racers, u \in Racers, p \in DOMAIN Players :
        /\ t # u
        /\ hits[p] >= 1
        /\ pc[t] = "store" /\ call[t].tgt = p
        /\ pc[u] = "lock" /\ call[u].op = "attack" /\ call[u].tgt = p

\* C25: when AttackPlayer(a, b) stores the damage, a and b are in the same
\* location, whatever MovePlayer calls on a or b run concurrently.
C25_DamageCoLocated ==
    [][\A t \in AllWorkers :
          (pc[t] = "store" /\ pc'[t] # "store") =>
              /\ Players[call[t].a].loc = Players[call[t].tgt].loc
              /\ Players'[call[t].tgt].health = Players[call[t].tgt].health - Damage]_vars

\* an attack has passed its co-location check and not yet stored the damage
\* while another goroutine has called MovePlayer to move its target away
C25_Witness ==
    \E t \in Racers, u \in Racers :
        /\ t # u
        /\ pc[t] \in {"load", "store"} /\ call[t].a # call[t].tgt
        /\ pc[u] = "lock" /\ call[u].op = "move" /\ call[u].a = call[t].tgt
        /\ moveError(Players, call[u].a, call[u].loc) = ""
        /\ call[u].loc # Players[call[u].a].loc

\* C26: the return of a MovePlayer or AttackPlayer error releases Mu: the
\* step leaves Mu free, Mu is only ever held by a caller inside its call, and
\* a caller waiting in Lock can take a free Mu.
C26_ErrorUnlocks ==
    /\ [][\A t \in AllWorkers :
            (pc[t] = "ret" /\ pc'[t] = "idle" /\ call[t].err \in Errors) =>
                Mu = t /\ Mu' = None]_vars
    /\ [](\A t \in AllWorkers :
            /\ Mu = t => pc[t] \notin {"idle", "lock"}
            /\ (pc[t] = "lock" /\ Mu = None) => ENABLED AcquireMu(t))

\* an AttackPlayer call is returning "players not in same location" while
\* another caller waits in g.Mu.Lock()
C26_Witness ==
    \E t \in Racers, u \in Racers :
        /\ pc[t] = "ret" /\ call[t].err = ErrNotSameLocation /\ Mu = t
        /\ pc[u] = "lock"

\* C27: a drain loop writes to the wire only events that BroadcastEvent
\* placed in its queue: the closure of the queue ends the stream.
C27_EndOfStream ==
    \A s \in Subs : \A i \in 1..Len(wire[s]) : IsEvent(wire[s][i])

\* C28: no subscriber queue ever holds more pending events than its capacity.
C28_Capacity ==
    \A s \in Subs : Len(chans[s].buf) <= QueueCap

\* a queue was full when a broadcast came and has been evicted, and another
\* registered queue has been filled to its capacity
C28_Witness ==
    \E s \in Subs, d \in DOMAIN clientPlayers :
        /\ chans[s].closed /\ spc[s] = "loop"
        /\ Len(chans[s].buf) = QueueCap
        /\ Len(chans[d].buf) = QueueCap

\* C29: in a world GenerateGraph returns no location lists itself and no
\* location lists a connection twice.
C29_NoSelfNoDup ==
    WorldReady =>
        \A l \in LocationIDs :
            /\ ~contains(Locations[l], l)
            /\ \A i \in 1..Len(Locations[l]), j \in 1..Len(Locations[l]) :
                  i # j => Locations[l][i] # Locations[l][j]

\* a world of MaxLocations locations, each connected to every other, one of
\* them first by the fallback: the last location could only draw itself or a
\* location it was connected to already
C29_Witness ==
    /\ WorldReady
    /\ gen.n = MaxLocations
    /\ gen.fell # {}
    /\ \A l \in LocationIDs : Len(Locations[l]) = gen.n - 1

\* worker t serves a MovePlayer of the player of subscription s to another
\* location, s was registered before the call's first BroadcastEvent
MoveForSubscriber(t, s) ==
    /\ call[t].op = "move" /\ call[t].err = "" /\ pc[t] = "bcast"
    /\ call[t].sent = <<>>
    /\ call[t].old # call[t].loc
    /\ s \in DOMAIN clientPlayers
    /\ clientPlayers[s] = call[t].a

\* the queue of s has got an arrival event of its player at loc (pending or
\* drained)
HasArrival(s, p, loc) ==
    \E i \in 1..Len(Delivered(s)) :
        /\ Delivered(s)[i].type = "player_moved"
        /\ Delivered(s)[i].msg = "arrived"
        /\ Delivered(s)[i].player = p
        /\ Delivered(s)[i].loc = loc

\* C31: a subscriber for the moving player receives the arrival event of its
\* own move: once a move of its player to another location is under way, the
\* arrival event gets into its queue (unless the subscription ends first).
C31_MoverGetsArrival ==
    \A t \in Workers, s \in Subs, p \in PlayerIDs, l \in LocationArgs :
        (MoveForSubscriber(t, s) /\ call[t].a = p /\ call[t].loc = l)
            ~> (HasArrival(s, p, l) \/ s \notin DOMAIN clientPlayers)

\* the operation a step of worker t belongs to ("" when t takes no step)
StepOp(t) ==
    IF pc'[t] = pc[t] /\ call'[t] = call[t] THEN ""
    ELSE IF pc[t] = "idle" THEN call'[t].op ELSE call[t].op

\* the call record of the operation a step of worker t belongs to
StepCall(t) == IF pc[t] = "idle" THEN call'[t] ELSE call[t]

\* the step changes at most field f ("loc" or "health") of player p
OnlyField(p, f) ==
    /\ DOMAIN Players' = DOMAIN Players
    /\ \A q \in DOMAIN Players :
        /\ q # p => Players'[q] = Players[q]
        /\ f # "loc" => Players'[q].loc = Players[q].loc
        /\ f # "health" => Players'[q].health = Players[q].health

\* C32: a step of MovePlayer changes nothing of any player but the moving
\* player's location, a step of AttackPlayer nothing but the target's health,
\* a step of AddClient, RemoveClient or BroadcastEvent's loop changes no
\* player, players are only ever added, and no step changes the locations.
C32_Frame ==
    [][ /\ Locations' = Locations
        /\ DOMAIN Players \subseteq DOMAIN Players'
        /\ \A t \in Workers :
            /\ StepOp(t) = "move" => OnlyField(StepCall(t).a, "loc")
            /\ StepOp(t) = "attack" => OnlyField(StepCall(t).tgt, "health")
        /\ (clientPlayers' # clientPlayers \/ chans' # chans
                \/ todo' # todo \/ clock' # clock \/ spc' # spc)
            => Players' = Players ]_vars

\* a damaged player has moved, after a subscription was registered and removed
C32_Witness ==
    /\ \E t \in Workers :
        /\ pc[t] = "ret" /\ call[t].op = "move" /\ call[t].err = ""
        /\ Players[call[t].a].loc # call[t].pre[call[t].a].loc
        /\ Players[call[t].a].health < StartHealth
    /\ \E s \in Subs : spc[s] = "gone"

\* C33: every read of a player's location made while serving a request is
\* ordered by g.Mu against the writes: while handleSSE is at its read of
\* player.CurrentLocation for the welcome event, no MovePlayer is at its write
\* of the same player's CurrentLocation.
C33_NoRacingRead ==
    \A s \in Subs, t \in AllWorkers :
        spc[s] = "welcome" => ~writePending(t, subPid[s])
====
